---- MODULE Spec2Model ----
(***************************************************************************)
(* Model of the Naver real-estate scraper (src/src/scraper.ts) and of the  *)
(* Telegram bot handlers that drive it (src/src/index.ts).                 *)
(* The cluster scraper is src/unnamed/part_003, the bot with the dialogue  *)
(* of inline keyboards is src/unnamed/part_001.                            *)
(*                                                                         *)
(* A process is either a library client that calls init / search / close   *)
(* on one scraper instance, or a bot command handler that runs             *)
(* init; search; close-in-finally on the module-level scraper.  Every      *)
(* await of the code is a step boundary.                                   *)
(*                                                                         *)
(* Korean text is written with one token per character:                    *)
(*   "ji" "ha" = basement, "ban" "ji" "ha" = semi-basement,                *)
(*   "cheung" = the floor suffix.                                          *)
(***************************************************************************)
EXTENDS Integers, Sequences, FiniteSets, TLC

(***************************************************************************)
(* Bounds of the model.                                                    *)
(***************************************************************************)
MaxBody == 2
MaxDom == 1
MaxCalls == 3
MaxClusters == 6
MaxUpdates == 4

(***************************************************************************)
(* Optional values (a TypeScript `x?: T`): <<>> is undefined, <<v>> is v.  *)
(***************************************************************************)
None == <<>>
Some(v) == <<v>>
\* JavaScript truthiness of an optional number: undefined and 0 are falsy.
Truthy(x) == x # None /\ x[1] # 0
\* x || d
OrDefault(x, d) == IF Truthy(x) THEN x[1] ELSE d

Min(a, b) == IF a <= b THEN a ELSE b
Max(a, b) == IF a >= b THEN a ELSE b

\* Array.prototype.slice(0, n)
Slice(s, n) ==
    IF n >= 0 THEN SubSeq(s, 1, Min(n, Len(s)))
    ELSE SubSeq(s, 1, Max(0, Len(s) + n))

RECURSIVE Flatten(_)
Flatten(ss) == IF ss = <<>> THEN <<>> ELSE Head(ss) \o Flatten(Tail(ss))

(***************************************************************************)
(* Program constants.                                                      *)
(***************************************************************************)
DefaultLimit == 20
DefaultMinFloor == 2
DomCap == 30

\* AREA_CODES: the names the table knows (romanised).
AREA_CODES == {"Yongsan", "Mapo", "Seongdong", "Gwangjin", "Yeongdeungpo",
               "Gangnam", "Seocho"}

(***************************************************************************)
(* Floor texts and the floor filter of search.                             *)
(***************************************************************************)
Digits == {"0", "1", "2", "3", "4", "5", "6", "7", "8", "9"}

DigitVal(c) ==
    CASE c = "0" -> 0 [] c = "1" -> 1 [] c = "2" -> 2 [] c = "3" -> 3
      [] c = "4" -> 4 [] c = "5" -> 5 [] c = "6" -> 6 [] c = "7" -> 7
      [] c = "8" -> 8 [] c = "9" -> 9

\* String.prototype.includes
Includes(text, pat) ==
    \E i \in 1..(Len(text) - Len(pat) + 1) :
        SubSeq(text, i, i + Len(pat) - 1) = pat

HasDigit(text) == \E i \in 1..Len(text) : text[i] \in Digits

\* Index of the first digit of text (text has one).
FirstDigit(text) ==
    CHOOSE i \in 1..Len(text) :
        /\ text[i] \in Digits
        /\ \A j \in 1..(i - 1) : text[j] \notin Digits

\* parseInt of the digit run that starts at i.
RECURSIVE DigitRun(_, _, _)
DigitRun(text, i, acc) ==
    IF i > Len(text) \/ text[i] \notin Digits THEN acc
    ELSE DigitRun(text, i + 1, acc * 10 + DigitVal(text[i]))

\* parseInt(p.floor.match(/(\d+)/)[1])
FloorNumber(text) == DigitRun(text, FirstDigit(text), 0)

JIHA == <<"ji", "ha">>
BANJI == <<"ban", "ji">>
FIRST_FLOOR == <<"1", "cheung">>

\* A Property record, as far as search reads it: id and floor.
\* id is <<"atclNo", n>> (upstream listing id) or <<"random", k>> (the k-th
\* String(Math.random()) token drawn on this scraper).

\* The floor filter of search: results.filter(p => ...).
floorFilter(p, opts) ==
    IF p.floor = <<>> THEN TRUE
    ELSE IF HasDigit(p.floor)
         THEN FloorNumber(p.floor) >= OrDefault(opts.minFloor, DefaultMinFloor)
    ELSE IF \/ Includes(p.floor, JIHA)
            \/ Includes(p.floor, BANJI)
            \/ p.floor = FIRST_FLOOR
         THEN FALSE
    ELSE TRUE

\* The tail of search: filter, then slice(0, options.limit || 20).
Finalize(rs, opts) ==
    Slice(SelectSeq(rs, LAMBDA p : floorFilter(p, opts)),
          OrDefault(opts.limit, DefaultLimit))

\* if (options.limit && results.length >= options.limit) break;
LimitReached(rs, opts) == Truthy(opts.limit) /\ Len(rs) >= opts.limit[1]

(***************************************************************************)
(* The upstream: raw listing items and the answers to one area's requests. *)
(***************************************************************************)
Item(no, flr) == [isNull |-> FALSE, atclNo |-> no, flrInfo |-> flr]
\* A null element of data.body: reading item.atclNo throws.
NullItem == [isNull |-> TRUE, atclNo |-> None, flrInfo |-> <<>>]

Catalogue ==
    { Item(Some(1), <<"3", "cheung">>),
      Item(Some(2), <<"2", "cheung">>),
      Item(Some(3), <<"1", "cheung">>),
      Item(Some(4), <<"ji", "ha", "2", "cheung">>),
      Item(None, <<"ban", "ji", "ha">>) }

RECURSIVE SeqsUpTo(_, _)
SeqsUpTo(S, n) ==
    IF n = 0 THEN {<<>>}
    ELSE LET shorter == SeqsUpTo(S, n - 1)
         IN  shorter \cup {Append(s, x) : s \in shorter, x \in S}

\* One area's answers: the primary request (articleList) and the fallback
\* page (clusterList).  primary is
\*   "throw"       page.goto or response.text() rejects (network, timeout)
\*   "null"        page.goto resolves to null
\*   "unparseable" JSON.parse throws
\*   "nobody"      data.body is missing or no array
\*   "body"        data.body is the array `body`
\* fbThrows: the fallback navigation rejects; fbItems: DOM items that yield
\* a title or a price.
Response(prim, body, fbThrows, fbItems) ==
    [primary |-> prim, body |-> body, fbThrows |-> fbThrows, fbItems |-> fbItems]

\* The primary strategy leaves results empty: the fallback is what decides.
Unusable(resp) ==
    \/ resp.primary \in {"null", "unparseable", "nobody"}
    \/ resp.primary = "body" /\ (resp.body = <<>> \/ Head(resp.body).isNull)

UsableBodies ==
    { b \in SeqsUpTo(Catalogue \cup {NullItem}, MaxBody) :
        /\ b # <<>>
        /\ ~Head(b).isNull
        /\ \A i \in 1..(Len(b) - 1) : ~b[i].isNull }

Fallbacks == {<<TRUE, 0>>} \cup {<<FALSE, k>> : k \in 0..MaxDom}

Responses ==
    {Response("throw", <<>>, FALSE, 0)}
    \cup {Response("body", b, FALSE, 0) : b \in UsableBodies}
    \cup {Response(k, <<>>, f[1], f[2]) :
            k \in {"null", "unparseable", "nobody", "body"}, f \in Fallbacks}
    \cup {Response("body", <<NullItem>>, f[1], f[2]) : f \in Fallbacks}

\* The few answers the bot scenarios draw from.
BotResponses ==
    { Response("throw", <<>>, FALSE, 0),
      Response("body", <<Item(Some(1), <<"3", "cheung">>)>>, FALSE, 0),
      Response("unparseable", <<>>, FALSE, 1) }

ModelAreas == {"Yongsan", "Mapo"}

\* const property = { id: item.atclNo || String(Math.random()), ...,
\*                    floor: item.flrInfo || '' }
toProperty(item, k) ==
    [id    |-> IF item.atclNo # None THEN <<"atclNo", item.atclNo[1]>>
               ELSE <<"random", k>>,
     floor |-> item.flrInfo]

\* for (const item of data.body) { ... results.push(property) }: stops at a
\* null element (TypeError, caught by the try around JSON.parse).
\* k counts the random tokens drawn so far.
RECURSIVE bodyLoop(_, _, _)
bodyLoop(body, k, acc) ==
    IF body = <<>> \/ Head(body).isNull THEN acc
    ELSE LET it == Head(body)
             k2 == IF it.atclNo = None THEN k + 1 ELSE k
         IN  bodyLoop(Tail(body), k2, Append(acc, toProperty(it, k2)))

\* Records of the primary strategy for an answer.
primaryRecords(resp, k) ==
    IF resp.primary = "body" THEN bodyLoop(resp.body, k, <<>>) ELSE <<>>

\* for (const item of items.slice(0, 30)) results.push({ id: String(
\* Math.random()), ..., floor: '' })
fallbackRecords(n, k) ==
    [i \in 1..Min(n, DomCap) |-> [id |-> <<"random", k + i>>, floor |-> <<>>]]

RandomCount(rs) == Cardinality({i \in 1..Len(rs) : rs[i].id[1] = "random"})

(***************************************************************************)
(* State.                                                                  *)
(***************************************************************************)
Procs == {1, 2}

VARIABLES
    browser,       \* this.browser: 0 is null, else the id of a launched browser
    launched,      \* how many browsers chromium.launch has produced
    launchCalls,   \* how often chromium.launch was called
    open,          \* launched browsers on which close() was not yet called
    closeCount,    \* closeCount[b]: how often browser.close() was called on b
    rnd,           \* how many Math.random() tokens were drawn
    upstream,      \* upstream[area]: the answers to that area's requests
    pc,            \* where each process stands
    role,          \* "client" (library caller), "handler" (bot command) or "off"
    script,        \* the calls a library client still has to make
    options,       \* the SearchOptions of the process's search call
    idx,           \* index into options.areas of the area being looked up
    results,       \* search's results array
    areaResults,   \* searchAreaMobile's results array
    ctx,           \* the browser under which the lookup's context is open, or 0
    primaryOut,    \* what the primary request of this lookup gave
    fallbackTried, \* whether this lookup navigated to the fallback page
    returned,      \* what the last search call returned
    outcome,       \* "none", "running", "returned" or "threw", of the search
    closing,       \* the browser a pending close() awaits, or 0
    clusters,      \* cluster mode: what fetchClusters returned
    fetched,       \* cluster mode: the lgeo of every listing fetch issued
    raw,           \* record normalisation: the raw item at hand
    normalized,    \* record normalisation: what the item became
    ALLOWED_USERS, \* the bot's list of allowed user ids, as split and trimmed
    members,       \* the users who can see the bot's messages in the chat
    userFilters,   \* userFilters: user id -> its filter object, 0 when absent
    heap,          \* the filter objects created so far
    keyboards,     \* keyboards[m]: the inline keyboard message m shows
    tasks,         \* the doSearch calls made so far
    received       \* how many updates the bot has received

vars == <<browser, launched, launchCalls, open, closeCount, rnd, upstream,
          pc, role, script, options, idx, results, areaResults, ctx,
          primaryOut, fallbackTried, returned, outcome, closing, clusters,
          fetched, raw, normalized, ALLOWED_USERS, members, userFilters,
          heap, keyboards, tasks, received>>

sessionVars == <<browser, launched, launchCalls, open, closeCount>>
botVars == <<ALLOWED_USERS, members, userFilters, heap, keyboards, tasks,
             received>>
modeVars == <<clusters, fetched, raw, normalized, botVars>>
lookupVars == <<areaResults, ctx, primaryOut, fallbackTried>>
searchVars == <<idx, results, returned, outcome>>

Areas(p) == options[p].areas[1]
Area(p) == Areas(p)[idx[p]]

SearchPcs == {"search_init", "newContext", "newPage", "primary", "fallback",
              "ctxClose"}

(***************************************************************************)
(* Where a caller goes on when a call of the scraper settles.  A library   *)
(* client goes back to issuing calls.  A command handler (index.ts 52-119) *)
(* runs try { init; search; reply } catch { reply } finally { close }.     *)
(***************************************************************************)
afterInit(p) == IF role[p] = "handler" THEN "h_search" ELSE "client"
afterInitThrow(p) == IF role[p] = "handler" THEN "h_close" ELSE "client"
afterSearch(p) == IF role[p] = "handler" THEN "h_close" ELSE "client"
afterClose(p) == IF role[p] = "handler" THEN "h_done" ELSE "client"

(***************************************************************************)
(* init and close (scraper.ts 36-48).                                      *)
(***************************************************************************)
\* this.browser = await chromium.launch(...), resumed with a browser.
Launch ==
    /\ launchCalls' = launchCalls + 1
    /\ launched' = launched + 1
    /\ browser' = launched + 1
    /\ open' = open \cup {launched + 1}
    /\ closeCount' = Append(closeCount, 0)

\* chromium.launch(...) rejects: this.browser keeps its value.
LaunchFails ==
    /\ launchCalls' = launchCalls + 1
    /\ UNCHANGED <<browser, launched, open, closeCount>>

\* init(), called by a client or a handler: the launch settles.
InitLaunch(p) ==
    /\ pc[p] = "init_launch"
    /\ \/ /\ Launch
          /\ pc' = [pc EXCEPT ![p] = afterInit(p)]
       \/ /\ LaunchFails
          /\ pc' = [pc EXCEPT ![p] = afterInitThrow(p)]
    /\ UNCHANGED <<rnd, upstream, role, script, options, closing>>
    /\ UNCHANGED <<lookupVars, searchVars>>
    /\ UNCHANGED modeVars

\* close() up to its await: if (this.browser) { await this.browser.close();
closeEntry(p) ==
    IF browser # 0
    THEN /\ closeCount' = [closeCount EXCEPT ![browser] = @ + 1]
         /\ open' = open \ {browser}
         /\ closing' = [closing EXCEPT ![p] = browser]
         /\ pc' = [pc EXCEPT ![p] = "close_await"]
         /\ UNCHANGED <<browser, launched, launchCalls>>
    ELSE /\ pc' = [pc EXCEPT ![p] = afterClose(p)]
         /\ UNCHANGED <<sessionVars, closing>>

\* ... this.browser = null; }
CloseAwait(p) ==
    /\ pc[p] = "close_await"
    /\ browser' = 0
    /\ closing' = [closing EXCEPT ![p] = 0]
    /\ pc' = [pc EXCEPT ![p] = afterClose(p)]
    /\ UNCHANGED <<launched, launchCalls, open, closeCount, rnd, upstream, role,
                   script, options>>
    /\ UNCHANGED <<lookupVars, searchVars>>
    /\ UNCHANGED modeVars

(***************************************************************************)
(* search (scraper.ts 50-87).                                              *)
(***************************************************************************)
\* The statements after the loop: filter, slice, return.
searchReturn(p, acc, i) ==
    /\ returned' = [returned EXCEPT ![p] = Finalize(acc, options[p])]
    /\ outcome' = [outcome EXCEPT ![p] = "returned"]
    /\ results' = [results EXCEPT ![p] = acc]
    /\ idx' = [idx EXCEPT ![p] = i]
    /\ pc' = [pc EXCEPT ![p] = afterSearch(p)]

\* search rejects.
searchThrow(p) ==
    /\ outcome' = [outcome EXCEPT ![p] = "threw"]
    /\ pc' = [pc EXCEPT ![p] = afterSearch(p)]
    /\ idx' = [idx EXCEPT ![p] = 0]
    /\ results' = [results EXCEPT ![p] = <<>>]
    /\ returned' = [returned EXCEPT ![p] = <<>>]

\* Control reaches the head of `for (const area of options.areas)` with
\* results = acc, about to take area number i: either the loop is over, or
\* searchAreaMobile(area) is called and awaits browser.newContext.
loopHead(p, i, acc) ==
    IF i > Len(Areas(p))
    THEN searchReturn(p, acc, i)
    ELSE /\ idx' = [idx EXCEPT ![p] = i]
         /\ results' = [results EXCEPT ![p] = acc]
         /\ pc' = [pc EXCEPT ![p] = "newContext"]
         /\ outcome' = [outcome EXCEPT ![p] = "running"]
         /\ returned' = [returned EXCEPT ![p] = <<>>]

\* `for (const area of options.areas)` with areas undefined is a TypeError
\* outside every try of search.
enterLoop(p) ==
    IF options[p].areas = None THEN searchThrow(p) ELSE loopHead(p, 1, <<>>)

\* catch (error) { console.error(...) } of the loop body: next area.
searchCatch(p) == loopHead(p, idx[p] + 1, results[p])

\* search(options) is called: if (!this.browser) await this.init(); and
\* with a browser at hand, straight on to the loop.
searchEntry(p) ==
    IF browser = 0
    THEN /\ pc' = [pc EXCEPT ![p] = "search_init"]
         /\ outcome' = [outcome EXCEPT ![p] = "running"]
         /\ idx' = [idx EXCEPT ![p] = 0]
         /\ results' = [results EXCEPT ![p] = <<>>]
         /\ returned' = [returned EXCEPT ![p] = <<>>]
    ELSE enterLoop(p)

\* A variant of SearchInit that swallows a failed launch and goes on to the
\* loop without a browser.
SearchInit_SwallowsLaunchFailure(p) ==
    /\ pc[p] = "search_init"
    /\ \/ /\ Launch
          /\ enterLoop(p)
       \/ /\ LaunchFails
          /\ enterLoop(p)
    /\ UNCHANGED <<rnd, upstream, role, script, options, closing>>
    /\ UNCHANGED lookupVars
    /\ UNCHANGED modeVars

\* The await this.init() of search settles.
SearchInit(p) ==
    /\ pc[p] = "search_init"
    /\ \/ /\ Launch
          /\ enterLoop(p)
       \/ /\ LaunchFails
          /\ searchThrow(p)
    /\ UNCHANGED <<rnd, upstream, role, script, options, closing>>
    /\ UNCHANGED lookupVars
    /\ UNCHANGED modeVars

(***************************************************************************)
(* searchAreaMobile (scraper.ts 89-197), one step per await.               *)
(***************************************************************************)
\* const context = await this.browser!.newContext(...)
NewContext(p) ==
    /\ pc[p] = "newContext"
    /\ areaResults' = [areaResults EXCEPT ![p] = <<>>]
    /\ primaryOut' = [primaryOut EXCEPT ![p] = "none"]
    /\ fallbackTried' = [fallbackTried EXCEPT ![p] = FALSE]
    /\ IF browser = 0 \/ browser \notin open
       THEN /\ searchCatch(p)
            /\ UNCHANGED ctx
       ELSE /\ ctx' = [ctx EXCEPT ![p] = browser]
            /\ pc' = [pc EXCEPT ![p] = "newPage"]
            /\ UNCHANGED searchVars
    /\ UNCHANGED <<sessionVars, rnd, upstream, role, script, options,
                   closing>>
    /\ UNCHANGED modeVars

\* A variant of NewPage in which an area missing from AREA_CODES raises
\* out of search instead of yielding an empty list.
NewPage_UnknownThrows(p) ==
    /\ pc[p] = "newPage"
    /\ IF ctx[p] \notin open
       THEN /\ searchCatch(p)
            /\ UNCHANGED primaryOut
       ELSE IF Area(p) \notin AREA_CODES
       THEN /\ searchThrow(p)
            /\ UNCHANGED primaryOut
       ELSE /\ pc' = [pc EXCEPT ![p] = "primary"]
            /\ UNCHANGED <<primaryOut, searchVars>>
    /\ UNCHANGED <<sessionVars, rnd, upstream, role, script, options,
                   closing, areaResults, ctx, fallbackTried>>
    /\ UNCHANGED modeVars

\* const page = await context.newPage(); then, inside the try, the
\* AREA_CODES lookup: an unknown area returns [] through the finally, a
\* known one issues page.goto(url).
NewPage(p) ==
    /\ pc[p] = "newPage"
    /\ IF ctx[p] \notin open
       THEN /\ searchCatch(p)
            /\ UNCHANGED primaryOut
       ELSE IF Area(p) \notin AREA_CODES
       THEN /\ primaryOut' = [primaryOut EXCEPT ![p] = "unknown"]
            /\ pc' = [pc EXCEPT ![p] = "ctxClose"]
            /\ UNCHANGED searchVars
       ELSE /\ pc' = [pc EXCEPT ![p] = "primary"]
            /\ UNCHANGED <<primaryOut, searchVars>>
    /\ UNCHANGED <<sessionVars, rnd, upstream, role, script, options,
                   closing, areaResults, ctx, fallbackTried>>
    /\ UNCHANGED modeVars

\* What the primary request gave, for the log.
primaryKind(resp, recs) ==
    IF resp.primary # "body" THEN resp.primary
    ELSE IF recs # <<>> THEN "records"
    ELSE IF resp.body = <<>> THEN "empty"
    ELSE "badrecord"

\* The primary request settles (lines 115-149), and with no record the
\* fallback navigation is issued (lines 152-156).
Primary(p) ==
    /\ pc[p] = "primary"
    /\ LET resp == upstream[Area(p)]
           recs == primaryRecords(resp, rnd)
       IN  IF ctx[p] \notin open \/ resp.primary = "throw"
           THEN /\ primaryOut' = [primaryOut EXCEPT ![p] = "failed"]
                /\ pc' = [pc EXCEPT ![p] = "ctxClose"]
                /\ UNCHANGED <<areaResults, rnd, fallbackTried>>
           ELSE /\ primaryOut' = [primaryOut EXCEPT ![p] = primaryKind(resp, recs)]
                /\ areaResults' = [areaResults EXCEPT ![p] = recs]
                /\ rnd' = rnd + RandomCount(recs)
                /\ IF recs = <<>>
                   THEN /\ fallbackTried' = [fallbackTried EXCEPT ![p] = TRUE]
                        /\ pc' = [pc EXCEPT ![p] = "fallback"]
                   ELSE /\ pc' = [pc EXCEPT ![p] = "ctxClose"]
                        /\ UNCHANGED fallbackTried
    /\ UNCHANGED <<sessionVars, upstream, role, script, options, closing,
                   ctx, searchVars>>
    /\ UNCHANGED modeVars

\* The fallback page settles and its items are extracted (lines 156-187).
Fallback(p) ==
    /\ pc[p] = "fallback"
    /\ LET resp == upstream[Area(p)]
           recs == fallbackRecords(resp.fbItems, rnd)
       IN  IF ctx[p] \notin open \/ resp.fbThrows
           THEN UNCHANGED <<areaResults, rnd>>
           ELSE /\ areaResults' = [areaResults EXCEPT ![p] = recs]
                /\ rnd' = rnd + Len(recs)
    /\ pc' = [pc EXCEPT ![p] = "ctxClose"]
    /\ UNCHANGED <<sessionVars, upstream, role, script, options, closing,
                   ctx, primaryOut, fallbackTried, searchVars>>
    /\ UNCHANGED modeVars

\* finally { await context.close() }; return results; and back in search:
\* results.push(...areaResults); the limit check; the next area.
CtxClose(p) ==
    /\ pc[p] = "ctxClose"
    /\ ctx' = [ctx EXCEPT ![p] = 0]
    /\ LET acc == results[p] \o areaResults[p]
       IN  IF LimitReached(acc, options[p])
           THEN searchReturn(p, acc, idx[p])
           ELSE loopHead(p, idx[p] + 1, acc)
    /\ UNCHANGED <<sessionVars, rnd, upstream, role, script, options,
                   closing, areaResults, primaryOut, fallbackTried>>
    /\ UNCHANGED modeVars

(***************************************************************************)
(* Callers.                                                                *)
(***************************************************************************)
\* A library client issues the next call of its script.
CallInit(p) ==
    /\ pc[p] = "client" /\ script[p] # <<>> /\ Head(script[p]) = "init"
    /\ script' = [script EXCEPT ![p] = Tail(@)]
    /\ pc' = [pc EXCEPT ![p] = "init_launch"]
    /\ UNCHANGED <<sessionVars, rnd, upstream, role, options, closing>>
    /\ UNCHANGED <<lookupVars, searchVars>>
    /\ UNCHANGED modeVars

CallSearch(p) ==
    /\ pc[p] = "client" /\ script[p] # <<>> /\ Head(script[p]) = "search"
    /\ script' = [script EXCEPT ![p] = Tail(@)]
    /\ searchEntry(p)
    /\ UNCHANGED <<sessionVars, rnd, upstream, role, options, closing>>
    /\ UNCHANGED lookupVars
    /\ UNCHANGED modeVars

CallClose(p) ==
    /\ pc[p] = "client" /\ script[p] # <<>> /\ Head(script[p]) = "close"
    /\ script' = [script EXCEPT ![p] = Tail(@)]
    /\ closeEntry(p)
    /\ UNCHANGED <<rnd, upstream, role, options>>
    /\ UNCHANGED <<lookupVars, searchVars>>
    /\ UNCHANGED modeVars

\* bot.command('hangang', ...) (index.ts 47-120): the update passed
\* isAllowed, the status message is sent, and scraper.init() is called.
HandlerStart(h) ==
    /\ pc[h] = "h_start"
    /\ pc' = [pc EXCEPT ![h] = "init_launch"]
    /\ UNCHANGED <<sessionVars, rnd, upstream, role, script, options, closing>>
    /\ UNCHANGED <<lookupVars, searchVars>>
    /\ UNCHANGED modeVars

\* const results = await scraper.search(options)
HandlerSearch(h) ==
    /\ pc[h] = "h_search"
    /\ searchEntry(h)
    /\ UNCHANGED <<sessionVars, rnd, upstream, role, script, options, closing>>
    /\ UNCHANGED lookupVars
    /\ UNCHANGED modeVars

\* The reply (or the catch's reply) is sent; finally { await scraper.close() }
HandlerClose(h) ==
    /\ pc[h] = "h_close"
    /\ closeEntry(h)
    /\ UNCHANGED <<rnd, upstream, role, script, options>>
    /\ UNCHANGED <<lookupVars, searchVars>>
    /\ UNCHANGED modeVars

(***************************************************************************)
(* Inputs.                                                                 *)
(***************************************************************************)
\* options.areas of a library search: missing, empty, one known area, an
\* unknown area before a known one, two known areas.
LibAreaLists ==
    { None, Some(<<>>), Some(<<"Yongsan">>), Some(<<"Unknown", "Yongsan">>),
      Some(<<"Yongsan", "Mapo">>) }
Limits == {None, Some(0), Some(1), Some(2)}
MinFloors == {None, Some(0), Some(3)}

LibOptions == [areas : LibAreaLists, minFloor : MinFloors, limit : Limits]

\* The options the command handlers build: index.ts 55-61 passes no areas,
\* the handler with an area list passes the areas around the river.
HandlerOptions ==
    [areas : {None, Some(<<"Yongsan", "Mapo">>)},
     minFloor : {Some(2)}, limit : {Some(20)}]

NoOptions == [areas |-> None, minFloor |-> None, limit |-> None]
NoResponse == Response("throw", <<>>, FALSE, 0)

Named(areasOpt) ==
    IF areasOpt = None THEN {}
    ELSE {areasOpt[1][i] : i \in 1..Len(areasOpt[1])}

\* The upstreams that differ on the areas a search names.
Upstreams(R, areasOpt) ==
    { u \in [ModelAreas -> R \cup {NoResponse}] :
        \A a \in ModelAreas : a \notin Named(areasOpt) => u[a] = NoResponse }

NoItem == <<>>

InitScraper ==
    /\ browser = 0
    /\ launched = 0
    /\ launchCalls = 0
    /\ open = {}
    /\ closeCount = <<>>
    /\ rnd = 0
    /\ idx = [p \in Procs |-> 0]
    /\ results = [p \in Procs |-> <<>>]
    /\ areaResults = [p \in Procs |-> <<>>]
    /\ ctx = [p \in Procs |-> 0]
    /\ primaryOut = [p \in Procs |-> "none"]
    /\ fallbackTried = [p \in Procs |-> FALSE]
    /\ returned = [p \in Procs |-> <<>>]
    /\ outcome = [p \in Procs |-> "none"]
    /\ closing = [p \in Procs |-> 0]
    /\ clusters = <<>>
    /\ fetched = <<>>
    /\ raw = NoItem
    /\ normalized = NoItem

\* The users of the chat, by Telegram user id.
Users == {1, 2}

\* No dialogue with the bot is under way.
NoDialogue ==
    /\ ALLOWED_USERS = <<<<>>>>
    /\ members = {}
    /\ userFilters = [u \in Users |-> 0]
    /\ heap = <<>>
    /\ keyboards = <<>>
    /\ tasks = <<>>
    /\ received = 0

\* One library client makes one search call on a fresh scraper, then closes.
Init ==
    /\ InitScraper
    /\ NoDialogue
    /\ role = [p \in Procs |-> IF p = 1 THEN "client" ELSE "off"]
    /\ pc = [p \in Procs |-> IF p = 1 THEN "client" ELSE "off"]
    /\ script = [p \in Procs |-> IF p = 1 THEN <<"search", "close">> ELSE <<>>]
    /\ \E o \in LibOptions :
        /\ options = [p \in Procs |-> IF p = 1 THEN o ELSE NoOptions]
        /\ upstream \in Upstreams(Responses, o.areas)

Next ==
    \E p \in {1} :
        \/ CallSearch(p)
        \/ SearchInit(p)
        \/ NewContext(p)
        \/ NewPage(p)
        \/ Primary(p)
        \/ Fallback(p)
        \/ CtxClose(p)
        \/ CallClose(p)
        \/ CloseAwait(p)

Spec == Init /\ [][Next]_vars

\* One library client makes any MaxCalls calls of init, search and close.
ApiInit ==
    /\ InitScraper
    /\ NoDialogue
    /\ role = [p \in Procs |-> IF p = 1 THEN "client" ELSE "off"]
    /\ pc = [p \in Procs |-> IF p = 1 THEN "client" ELSE "off"]
    /\ \E sc \in SeqsUpTo({"init", "search", "close"}, MaxCalls) :
        script = [p \in Procs |-> IF p = 1 THEN sc ELSE <<>>]
    /\ \E a \in {None, Some(<<>>)} :
        options = [p \in Procs |->
                     IF p = 1 THEN [NoOptions EXCEPT !.areas = a] ELSE NoOptions]
    /\ upstream = [a \in ModelAreas |-> NoResponse]

ApiNext ==
    \E p \in {1} :
        \/ CallInit(p)
        \/ InitLaunch(p)
        \/ CallSearch(p)
        \/ SearchInit(p)
        \/ CallClose(p)
        \/ CloseAwait(p)

ApiSpec == ApiInit /\ [][ApiNext]_vars

\* Two command handlers run on the module-level scraper.
BotInit ==
    /\ InitScraper
    /\ NoDialogue
    /\ role = [p \in Procs |-> "handler"]
    /\ pc = [p \in Procs |-> "h_start"]
    /\ script = [p \in Procs |-> <<>>]
    /\ options \in [Procs -> HandlerOptions]
    /\ upstream \in [ModelAreas -> BotResponses]

BotNext ==
    \E h \in Procs :
        \/ HandlerStart(h)
        \/ InitLaunch(h)
        \/ HandlerSearch(h)
        \/ SearchInit(h)
        \/ NewContext(h)
        \/ NewPage(h)
        \/ Primary(h)
        \/ Fallback(h)
        \/ CtxClose(h)
        \/ HandlerClose(h)
        \/ CloseAwait(h)

BotSpec == BotInit /\ [][BotNext]_vars

\* Two callers of one scraper whose calls may overlap: one runs init and
\* closes, the other only closes, at any moment.
OverlapScripts ==
    { <<s1, s2>> :
        s1 \in { s \in SeqsUpTo({"init", "close"}, MaxCalls) :
                    s # <<>> /\ s[Len(s)] = "close" },
        s2 \in SeqsUpTo({"close"}, MaxCalls) \ {<<>>} }

OverlapInit ==
    /\ InitScraper
    /\ NoDialogue
    /\ role = [p \in Procs |-> "client"]
    /\ pc = [p \in Procs |-> "client"]
    /\ script \in OverlapScripts
    /\ options = [p \in Procs |-> NoOptions]
    /\ upstream = [a \in ModelAreas |-> NoResponse]

OverlapNext ==
    \E p \in Procs :
        \/ CallInit(p)
        \/ InitLaunch(p)
        \/ CallClose(p)
        \/ CloseAwait(p)

OverlapSpec == OverlapInit /\ [][OverlapNext]_vars

(***************************************************************************)
(* Cluster mode (src/unnamed/part_003): search asks for the clusters of    *)
(* the bounding box, then fetches the listings of the densest ones.        *)
(***************************************************************************)
\* A raw listing item of a cluster's articleList.  spc2 is None (missing),
\* <<"num", n>> (text of the number n) or <<"text", t>> (no number);
\* hanPrc and prcInfo are texts (token sequences), rentPrc and prc numbers.
ClusterItem(no, spc2, flr, hanPrc, rentPrc, prcInfo) ==
    [atclNo |-> no, spc2 |-> spc2, flrInfo |-> flr, hanPrc |-> hanPrc,
     rentPrc |-> rentPrc, prcInfo |-> prcInfo, prc |-> None]

\* parseFloat(item.spc2 || '0'): Some(number), or None for NaN.
parseSize(spc2) ==
    IF spc2 = None THEN Some(0)
    ELSE IF spc2[1] = "num" THEN Some(spc2[2])
    ELSE None

\* if (options.minSize && size < options.minSize) continue;
\* if (options.maxSize && size > options.maxSize) continue;
sizeRejects(it, opts) ==
    LET size == parseSize(it.spc2)
    IN  /\ size # None
        /\ \/ Truthy(opts.minSize) /\ size[1] < opts.minSize[1]
           \/ Truthy(opts.maxSize) /\ size[1] > opts.maxSize[1]

\* const deposit = item.prc || 0; const rent = item.rentPrc || 0;
\* if (options.maxDeposit && deposit > options.maxDeposit) continue;
\* if (options.maxRent && rent > options.maxRent) continue;
priceRejects(it, opts) ==
    \/ Truthy(opts.maxDeposit) /\ OrDefault(it.prc, 0) > opts.maxDeposit[1]
    \/ Truthy(opts.maxRent) /\ OrDefault(it.rentPrc, 0) > opts.maxRent[1]

\* A text is truthy when it is there and not empty.
TruthyText(t) == t # None /\ t[1] # <<>>

\* Decimal text of a small natural number, one token.
NumText(n) == <<ToString(n)>>

\* formatPrice(item) of the cluster scrapers.
formatPriceCluster(it) ==
    LET parts == IF TruthyText(it.hanPrc) THEN <<it.hanPrc[1]>> ELSE <<>>
    IN  IF Truthy(it.rentPrc)
        THEN IF Len(parts) > 0
             THEN parts[1] \o <<"/">> \o NumText(it.rentPrc[1])
             ELSE NumText(it.rentPrc[1])
        ELSE IF Len(parts) > 0 THEN parts[1]
        ELSE IF TruthyText(it.prcInfo) THEN it.prcInfo[1]
        ELSE <<>>

\* size: item.spc2 ? `${item.spc2}m2` : ''
sizeText(spc2) ==
    IF spc2 = None THEN <<>>
    ELSE IF spc2[1] = "num" THEN <<ToString(spc2[2]), "m2">>
    ELSE <<spc2[2], "m2">>

\* const property = { id, ..., price, size, floor, ... } of
\* fetchArticlesFromCluster; k counts the random tokens drawn so far.
clusterProperty(it, k) ==
    [id    |-> IF it.atclNo # None THEN <<"atclNo", it.atclNo[1]>>
               ELSE <<"random", k>>,
     floor |-> it.flrInfo,
     size  |-> sizeText(it.spc2),
     price |-> formatPriceCluster(it)]

\* for (const item of data.body) { filters; results.push(property) }
RECURSIVE clusterArticles(_, _, _, _)
clusterArticles(body, opts, k, acc) ==
    IF body = <<>> THEN acc
    ELSE LET it == Head(body)
         IN  IF sizeRejects(it, opts) \/ priceRejects(it, opts)
             THEN clusterArticles(Tail(body), opts, k, acc)
             ELSE LET k2 == IF it.atclNo = None THEN k + 1 ELSE k
                  IN  clusterArticles(Tail(body), opts, k2,
                                      Append(acc, clusterProperty(it, k2)))

\* Program constant: for (const cluster of clusters.slice(0, 5))
ClusterCap == 5

Cluster(lgeo, count) == [lgeo |-> lgeo, count |-> count]

\* Array.prototype.sort((a, b) => b.count - a.count): stable, descending.
RECURSIVE insertByCount(_, _)
insertByCount(c, sorted) ==
    IF sorted = <<>> THEN <<c>>
    ELSE IF Head(sorted).count >= c.count
         THEN <<Head(sorted)>> \o insertByCount(c, Tail(sorted))
    ELSE <<c>> \o sorted

\* A variant of sortByCount that leaves the upstream order.
sortByCount_Unsorted(cs) == cs

RECURSIVE sortByCount(_)
sortByCount(cs) ==
    IF cs = <<>> THEN <<>>
    ELSE insertByCount(cs[Len(cs)], sortByCount(SubSeq(cs, 1, Len(cs) - 1)))

\* The answer to the aggregate clusterList request.  kind is
\*   "throw"       the request errors or times out (fetchJson rejects)
\*   "unparseable" JSON.parse throws (fetchJson rejects)
\*   "notsuccess"  data.code is not 'success'
\*   "noarticle"   data.data?.ARTICLE is missing
\*   "ok"          data.data.ARTICLE is the array `list`
Aggregate(kind, list) == [kind |-> kind, list |-> list]

\* fetchClusters: the sorted array, [] or a rejection.
fetchClusters(agg) ==
    IF agg.kind \in {"throw", "unparseable"}
    THEN [threw |-> TRUE, clusters |-> <<>>]
    ELSE IF agg.kind = "ok"
    THEN [threw |-> FALSE, clusters |-> sortByCount(agg.list)]
    ELSE [threw |-> FALSE, clusters |-> <<>>]

\* The statements after the loop of the cluster search: filter and slice.
clusterReturn(p, acc) ==
    /\ returned' = [returned EXCEPT ![p] = Finalize(acc, options[p])]
    /\ outcome' = [outcome EXCEPT ![p] = "returned"]
    /\ results' = [results EXCEPT ![p] = acc]
    /\ pc' = [pc EXCEPT ![p] = "c_done"]
    /\ UNCHANGED <<idx, fetched>>

\* Head of `for (const cluster of clusters.slice(0, 5))` with results = acc,
\* about to take cluster number i of cs: the loop is over, or
\* fetchArticlesFromCluster(cluster.lgeo) issues its request.
clusterLoop(p, cs, i, acc) ==
    IF i > Len(Slice(cs, ClusterCap))
    THEN clusterReturn(p, acc)
    ELSE /\ idx' = [idx EXCEPT ![p] = i]
         /\ results' = [results EXCEPT ![p] = acc]
         /\ fetched' = Append(fetched, cs[i])
         /\ pc' = [pc EXCEPT ![p] = "c_fetch"]
         /\ UNCHANGED <<returned, outcome>>

clusterFixed == <<sessionVars, upstream, role, script, options, closing,
                  lookupVars, raw, normalized, botVars>>

\* search(options) is called: fetchClusters issues the aggregate request.
ClusterStart(p) ==
    /\ pc[p] = "c_start"
    /\ pc' = [pc EXCEPT ![p] = "c_clusters"]
    /\ outcome' = [outcome EXCEPT ![p] = "running"]
    /\ UNCHANGED <<idx, results, returned, rnd, clusters, fetched>>
    /\ UNCHANGED clusterFixed

\* A variant of ClusterDiscover in which a rejected aggregate request is not
\* caught by search and reaches the caller.
ClusterDiscover_Rethrows(p) ==
    /\ pc[p] = "c_clusters"
    /\ LET r == fetchClusters(upstream)
       IN  /\ clusters' = r.clusters
           /\ IF r.threw
              THEN /\ outcome' = [outcome EXCEPT ![p] = "threw"]
                   /\ pc' = [pc EXCEPT ![p] = "c_done"]
                   /\ UNCHANGED <<idx, results, returned, fetched>>
              ELSE clusterLoop(p, r.clusters, 1, <<>>)
    /\ UNCHANGED rnd
    /\ UNCHANGED clusterFixed

\* The aggregate request settles: a rejection lands in the outer catch of
\* search, anything else enters the loop.
ClusterDiscover(p) ==
    /\ pc[p] = "c_clusters"
    /\ LET r == fetchClusters(upstream)
       IN  /\ clusters' = r.clusters
           /\ IF r.threw THEN clusterReturn(p, <<>>)
              ELSE clusterLoop(p, r.clusters, 1, <<>>)
    /\ UNCHANGED rnd
    /\ UNCHANGED clusterFixed

\* Two listings: a third-floor flat of 30 m2 at 1eok / 50, and one that
\* carries no listing id, no size and no floor.
ClusterBodies ==
    LET a == ClusterItem(Some(1), <<"num", 30>>, <<"3", "cheung">>,
                         Some(<<"1eok">>), Some(50), None)
        b == ClusterItem(None, None, <<>>, Some(<<"2eok">>), Some(0), None)
    IN  {<<>>, <<a>>, <<a, b>>}

\* The answers an articleList request can get: a rejection, a payload
\* without success code or body, or a body.
ArticleResponses ==
    {[kind |-> "throw", body |-> <<>>], [kind |-> "notsuccess", body |-> <<>>]}
    \cup {[kind |-> "ok", body |-> b] : b \in ClusterBodies}

\* The articleList request of cluster idx settles.
ClusterFetch(p) ==
    /\ pc[p] = "c_fetch"
    /\ \E resp \in ArticleResponses :
        IF resp.kind = "throw"
        THEN /\ clusterLoop(p, clusters, idx[p] + 1, results[p])
             /\ UNCHANGED rnd
        ELSE LET arts == clusterArticles(resp.body, options[p], rnd, <<>>)
                 acc == results[p] \o arts
             IN  /\ rnd' = rnd + RandomCount(arts)
                 /\ IF LimitReached(acc, options[p])
                    THEN clusterReturn(p, acc)
                    ELSE /\ results' = [results EXCEPT ![p] = acc]
                         /\ pc' = [pc EXCEPT ![p] = "c_delay"]
                         /\ UNCHANGED <<idx, returned, outcome, fetched>>
    /\ UNCHANGED clusters
    /\ UNCHANGED clusterFixed

\* await new Promise(r => setTimeout(r, 300)) is over: next cluster.
ClusterDelay(p) ==
    /\ pc[p] = "c_delay"
    /\ clusterLoop(p, clusters, idx[p] + 1, results[p])
    /\ UNCHANGED <<rnd, clusters>>
    /\ UNCHANGED clusterFixed

\* The cluster arrays of the model: every count pattern over 1 and 2, the
\* lgeo of a cluster being its place in the upstream array.
ClusterLists ==
    { [i \in 1..Len(cnts) |-> Cluster(i, cnts[i])] :
        cnts \in SeqsUpTo({1, 2}, MaxClusters) }

Aggregates ==
    {Aggregate(k, <<>>) : k \in {"throw", "unparseable", "notsuccess",
                                 "noarticle"}}
    \cup {Aggregate("ok", l) : l \in ClusterLists}

ClusterOptions ==
    [minFloor : {None}, limit : {None, Some(2)}, minSize : {None, Some(26)},
     maxSize : {None}, maxDeposit : {None}, maxRent : {None}]

\* One caller makes one cluster-mode search.
ClusterInit ==
    /\ InitScraper
    /\ NoDialogue
    /\ role = [p \in Procs |-> IF p = 1 THEN "client" ELSE "off"]
    /\ pc = [p \in Procs |-> IF p = 1 THEN "c_start" ELSE "off"]
    /\ script = [p \in Procs |-> <<>>]
    /\ \E o \in ClusterOptions :
        options = [p \in Procs |-> IF p = 1 THEN o ELSE NoOptions]
    /\ upstream \in Aggregates

ClusterNext ==
    \E p \in {1} :
        \/ ClusterStart(p)
        \/ ClusterDiscover(p)
        \/ ClusterFetch(p)
        \/ ClusterDelay(p)

ClusterSpec == ClusterInit /\ [][ClusterNext]_vars

(***************************************************************************)
(* Normalisation of one raw item into a Property, by the cluster scraper   *)
(* (part_003 158-182) and by the named-area scraper (scraper.ts 130-142).  *)
(***************************************************************************)
SPACE == " "

\* price.replace(/\s+/g, ' '): runs of white space become one space.
RECURSIVE collapseSpaces(_)
collapseSpaces(t) ==
    IF Len(t) <= 1 THEN t
    ELSE IF t[1] = SPACE /\ t[2] = SPACE THEN collapseSpaces(Tail(t))
    ELSE <<t[1]>> \o collapseSpaces(Tail(t))

\* String.prototype.trim, of a text whose spaces are collapsed.
trim(t) ==
    LET a == IF t # <<>> /\ t[1] = SPACE THEN Tail(t) ELSE t
    IN  IF a # <<>> /\ a[Len(a)] = SPACE THEN SubSeq(a, 1, Len(a) - 1) ELSE a

\* formatPrice(price) of scraper.ts.
formatPriceMobile(price) ==
    IF price = <<>> THEN <<>> ELSE trim(collapseSpaces(price))

\* price: this.formatPrice(item.prcInfo || item.hanPrc || '')
mobilePrice(it) ==
    formatPriceMobile(IF TruthyText(it.prcInfo) THEN it.prcInfo[1]
                      ELSE IF TruthyText(it.hanPrc) THEN it.hanPrc[1]
                      ELSE <<>>)

\* The Property that searchAreaMobile builds of an item (scraper.ts 131-140).
mobileProperty(it, k) ==
    [id    |-> toProperty(it, k).id,
     floor |-> toProperty(it, k).floor,
     size  |-> sizeText(it.spc2),
     price |-> mobilePrice(it)]

\* The cluster scraper handles the item at hand: filters, then the record.
NormalizeCluster(p) ==
    /\ pc[p] = "n_start"
    /\ normalized' =
          IF sizeRejects(raw, options[p]) \/ priceRejects(raw, options[p])
          THEN [by |-> "cluster", kept |-> FALSE, property |-> NoItem]
          ELSE [by |-> "cluster", kept |-> TRUE,
                property |-> clusterProperty(raw, 1)]
    /\ pc' = [pc EXCEPT ![p] = "n_done"]
    /\ UNCHANGED <<sessionVars, rnd, upstream, role, script, options, closing,
                   lookupVars, searchVars, clusters, fetched, raw, botVars>>

\* The named-area scraper handles the item at hand: it has no filter here.
NormalizeMobile(p) ==
    /\ pc[p] = "n_start"
    /\ normalized' = [by |-> "mobile", kept |-> TRUE,
                      property |-> mobileProperty(raw, 1)]
    /\ pc' = [pc EXCEPT ![p] = "n_done"]
    /\ UNCHANGED <<sessionVars, rnd, upstream, role, script, options, closing,
                   lookupVars, searchVars, clusters, fetched, raw, botVars>>

\* The raw items of the model: sizes below, inside and above the handler's
\* 26..43 range, a size that is no number and a missing one; with and
\* without deposit text, rent and combined price text.
RawItems ==
    { ClusterItem(Some(1), sz, <<"3", "cheung">>, han, rent, info) :
        sz \in {None, <<"num", 20>>, <<"num", 30>>, <<"num", 50>>,
                <<"text", "x">>},
        han \in {None, Some(<<"1eok">>)},
        rent \in {None, Some(0), Some(50)},
        info \in {None, Some(<<SPACE, "1eok", SPACE, SPACE, "/", "50">>)} }

ItemOptions ==
    [minFloor : {None}, limit : {None}, minSize : {None, Some(26)},
     maxSize : {None, Some(43)}, maxDeposit : {None}, maxRent : {None}]

\* One raw item is about to be normalised under some options.
ItemInit ==
    /\ browser = 0 /\ launched = 0 /\ launchCalls = 0 /\ open = {}
    /\ closeCount = <<>> /\ rnd = 0
    /\ idx = [p \in Procs |-> 0]
    /\ results = [p \in Procs |-> <<>>]
    /\ areaResults = [p \in Procs |-> <<>>]
    /\ ctx = [p \in Procs |-> 0]
    /\ primaryOut = [p \in Procs |-> "none"]
    /\ fallbackTried = [p \in Procs |-> FALSE]
    /\ returned = [p \in Procs |-> <<>>]
    /\ outcome = [p \in Procs |-> "none"]
    /\ closing = [p \in Procs |-> 0]
    /\ clusters = <<>> /\ fetched = <<>>
    /\ normalized = NoItem
    /\ NoDialogue
    /\ raw \in RawItems
    /\ role = [p \in Procs |-> IF p = 1 THEN "client" ELSE "off"]
    /\ pc = [p \in Procs |-> IF p = 1 THEN "n_start" ELSE "off"]
    /\ script = [p \in Procs |-> <<>>]
    /\ \E o \in ItemOptions :
        options = [p \in Procs |-> IF p = 1 THEN o ELSE NoOptions]
    /\ upstream = [a \in ModelAreas |-> NoResponse]

ItemNext ==
    \E p \in {1} :
        \/ NormalizeCluster(p)
        \/ NormalizeMobile(p)

ItemSpec == ItemInit /\ [][ItemNext]_vars

\* The answers of a stable upstream that the repeated search meets: as the
\* bot's, and a listing that carries no atclNo.
TwiceResponses ==
    BotResponses
    \cup {Response("body", <<Item(None, <<"3", "cheung">>)>>, FALSE, 0)}

TwiceOptions ==
    [areas : {Some(<<"Yongsan">>), Some(<<"Yongsan", "Mapo">>)},
     minFloor : {None}, limit : {None, Some(1)}]

\* The same search is made twice on one scraper, the second call after the
\* first has settled, against an upstream that answers the same both times.
TwiceInit ==
    /\ InitScraper
    /\ NoDialogue
    /\ role = [p \in Procs |-> "client"]
    /\ pc = [p \in Procs |-> "client"]
    /\ script = [p \in Procs |-> <<"search">>]
    /\ \E o \in TwiceOptions :
        /\ options = [p \in Procs |-> o]
        /\ upstream \in Upstreams(TwiceResponses, o.areas)

FirstSearch == CallSearch(1)

\* The second call is made once the first has settled.
SecondSearch ==
    /\ pc[1] = "client" /\ script[1] = <<>>
    /\ CallSearch(2)

TwiceNext ==
    \/ FirstSearch
    \/ SecondSearch
    \/ \E p \in Procs :
        \/ SearchInit(p)
        \/ NewContext(p)
        \/ NewPage(p)
        \/ Primary(p)
        \/ Fallback(p)
        \/ CtxClose(p)

TwiceSpec == TwiceInit /\ [][TwiceNext]_vars

(***************************************************************************)
(* Searches whose regions yield about as many records as the default       *)
(* limit: the article list fails to parse and the fallback page holds n    *)
(* listing elements, of which items.slice(0, 30) keeps at most DomCap.     *)
(***************************************************************************)
BulkCounts == {0, DefaultLimit - 1, DefaultLimit, DomCap + 1}

BulkResponses ==
    {Response("throw", <<>>, FALSE, 0)}
    \cup {Response("unparseable", <<>>, FALSE, n) : n \in BulkCounts}

BulkOptions ==
    [areas : {Some(<<"Yongsan", "Mapo">>), Some(<<"Mapo", "Yongsan">>)},
     minFloor : {None},
     limit : {None, Some(DefaultLimit - 1), Some(DefaultLimit)}]

BulkInit ==
    /\ InitScraper
    /\ NoDialogue
    /\ role = [p \in Procs |-> IF p = 1 THEN "client" ELSE "off"]
    /\ pc = [p \in Procs |-> IF p = 1 THEN "client" ELSE "off"]
    /\ script = [p \in Procs |-> IF p = 1 THEN <<"search">> ELSE <<>>]
    /\ \E o \in BulkOptions :
        /\ options = [p \in Procs |-> IF p = 1 THEN o ELSE NoOptions]
        /\ upstream \in Upstreams(BulkResponses, o.areas)

BulkNext ==
    \E p \in {1} :
        \/ CallSearch(p)
        \/ SearchInit(p)
        \/ NewContext(p)
        \/ NewPage(p)
        \/ Primary(p)
        \/ Fallback(p)
        \/ CtxClose(p)

BulkSpec == BulkInit /\ [][BulkNext]_vars

(***************************************************************************)
(* Region lookups in which page creation can fail.                         *)
(***************************************************************************)
\* const page = await context.newPage() (scraper.ts 97) rejects while the
\* browser is alive.  The statement stands between newContext (line 91) and
\* the try of lines 99-194, so the finally with context.close() is not run:
\* the rejection leaves searchAreaMobile and is caught by the loop of search
\* (lines 66-68), which goes on to the next area.
NewPageFails(p) ==
    /\ pc[p] = "newPage"
    /\ ctx[p] \in open
    /\ searchCatch(p)
    /\ UNCHANGED <<sessionVars, rnd, upstream, role, script, options,
                   closing, lookupVars>>
    /\ UNCHANGED modeVars

LookupOptions ==
    [areas : {Some(<<"Yongsan">>), Some(<<"Unknown", "Yongsan">>),
              Some(<<"Yongsan", "Mapo">>)},
     minFloor : {None}, limit : {None, Some(1)}]

LookupInit ==
    /\ InitScraper
    /\ NoDialogue
    /\ role = [p \in Procs |-> IF p = 1 THEN "client" ELSE "off"]
    /\ pc = [p \in Procs |-> IF p = 1 THEN "client" ELSE "off"]
    /\ script = [p \in Procs |-> IF p = 1 THEN <<"search", "close">> ELSE <<>>]
    /\ \E o \in LookupOptions :
        /\ options = [p \in Procs |-> IF p = 1 THEN o ELSE NoOptions]
        /\ upstream \in Upstreams(BotResponses, o.areas)

LookupNext ==
    \E p \in {1} :
        \/ CallSearch(p)
        \/ SearchInit(p)
        \/ NewContext(p)
        \/ NewPage(p)
        \/ NewPageFails(p)
        \/ Primary(p)
        \/ Fallback(p)
        \/ CtxClose(p)
        \/ CallClose(p)
        \/ CloseAwait(p)

LookupSpec == LookupInit /\ [][LookupNext]_vars

(***************************************************************************)
(* The dialogue bot (src/unnamed/part_001): /hangang opens a dialogue of   *)
(* inline keyboards (trade type, deposit, rent) that ends in doSearch;     *)
(* /search calls doSearch at once.  A user's choices are kept in the       *)
(* object userFilters holds for the user's id; doSearch is handed that     *)
(* object.                                                                 *)
(***************************************************************************)
\* process.env.ALLOWED_USERS as its comma-separated entries, each a text of
\* characters: unset or '', '1', and ' 2'.
AllowedEnvs == { <<<<>>>>, <<<<"1">>>>, <<<<SPACE, "2">>>> }

\* (process.env.ALLOWED_USERS || '').split(',').map(s => s.trim())
splitTrim(env) == [i \in 1..Len(env) |-> trim(env[i])]

\* userId.toString(), of a one-digit id.
idText(userId) == <<ToString(userId)>>

\* ALLOWED_USERS.includes(text)
allowedIncludes(text) ==
    \E i \in 1..Len(ALLOWED_USERS) : ALLOWED_USERS[i] = text

\* const isAllowed = (userId) => { if (ALLOWED_USERS.length === 0 ||
\*   ALLOWED_USERS[0] === '') return true;
\*   return ALLOWED_USERS.includes(userId.toString()); }
isAllowed(userId) ==
    IF Len(ALLOWED_USERS) = 0 \/ ALLOWED_USERS[1] = <<>> THEN TRUE
    ELSE allowedIncludes(idText(userId))

\* A filter object: { tradeType, maxDeposit?, maxRent? }.
Filter(t, d, r) == [tradeType |-> t, maxDeposit |-> d, maxRent |-> r]

\* { tradeType: 'all' }
NewFilter == Filter("all", None, None)

\* The keyboards a message can show, and the callback data of their
\* buttons as <<prefix, value>>.  Of the amounts of a deposit or rent
\* keyboard the model keeps the first one and 'none'.
TradeTypes == {"jeonse", "rent", "all"}
DepKeyboards == {<<"dep", t>> : t \in TradeTypes}
firstDeposit(t) ==
    CASE t = "jeonse" -> "10000"
      [] t = "rent" -> "500"
      [] t = "all" -> "1000"
Buttons(kb) ==
    IF kb = <<"trade">> THEN {<<"trade", t>> : t \in TradeTypes}
    ELSE IF kb \in DepKeyboards
         THEN {<<"dep", firstDeposit(kb[2])>>, <<"dep", "none">>}
    ELSE IF kb = <<"rent">> THEN {<<"rent", "30">>, <<"rent", "none">>}
    ELSE {}

\* parseInt(value), of the amounts above.
parseInt(value) ==
    CASE value = "10000" -> 10000
      [] value = "500" -> 500
      [] value = "1000" -> 1000
      [] value = "30" -> 30

\* const options: SearchOptions = { minSize: 26, maxSize: 43, minFloor: 2,
\*   tradeType: filter.tradeType, limit: 20, maxDeposit: filter.maxDeposit,
\*   maxRent: filter.maxRent }
dialogueOptions(filter) ==
    [minSize |-> 26, maxSize |-> 43, minFloor |-> 2,
     tradeType |-> filter.tradeType, limit |-> 20,
     maxDeposit |-> filter.maxDeposit, maxRent |-> filter.maxRent]

\* A doSearch call: who sent the update, the callback data or command that
\* made the call, the message of the update (0 for a command), the filter
\* object handed over, where the call stands, and the options of its
\* search once scraper.search was called.
Task(u, via, m, ref) ==
    [from |-> u, via |-> via, msg |-> m, filter |-> ref, at |-> "edit",
     options |-> None]

scraperVars == <<sessionVars, rnd, upstream, pc, role, script, options,
                 closing, lookupVars, searchVars, clusters, fetched, raw,
                 normalized>>

\* userFilters.get(ctx.from.id) || { tradeType: 'all' }: the heap once the
\* object is at hand, and the object's place in it.
heapWithFilter(u) ==
    IF userFilters[u] # 0 THEN heap ELSE Append(heap, NewFilter)
filterRef(u) ==
    IF userFilters[u] # 0 THEN userFilters[u] ELSE Len(heap) + 1

\* bot.command('hangang'): lines 70-85.
CmdHangang(u) ==
    /\ received < MaxUpdates
    /\ received' = received + 1
    /\ IF ~isAllowed(u)
       THEN UNCHANGED <<userFilters, heap, keyboards>>
       ELSE /\ heap' = Append(heap, NewFilter)
            /\ userFilters' = [userFilters EXCEPT ![u] = Len(heap) + 1]
            /\ keyboards' = Append(keyboards, <<"trade">>)
    /\ UNCHANGED <<ALLOWED_USERS, members, tasks>>
    /\ UNCHANGED scraperVars

\* bot.action('trade_jeonse' | 'trade_rent' | 'trade_all'): lines 88-147.
ActTrade(u, m, t) ==
    /\ received < MaxUpdates
    /\ <<"trade", t>> \in Buttons(keyboards[m])
    /\ received' = received + 1
    /\ heap' = [heapWithFilter(u) EXCEPT ![filterRef(u)].tradeType = t]
    /\ userFilters' = [userFilters EXCEPT ![u] = filterRef(u)]
    /\ keyboards' = [keyboards EXCEPT ![m] = <<"dep", t>>]
    /\ UNCHANGED <<ALLOWED_USERS, members, tasks>>
    /\ UNCHANGED scraperVars

\* bot.action(/^dep_(.+)$/): lines 150-179.
ActDep(u, m, value) ==
    /\ received < MaxUpdates
    /\ <<"dep", value>> \in Buttons(keyboards[m])
    /\ received' = received + 1
    /\ heap' = IF value # "none"
               THEN [heapWithFilter(u) EXCEPT
                       ![filterRef(u)].maxDeposit = Some(parseInt(value))]
               ELSE heapWithFilter(u)
    /\ userFilters' = [userFilters EXCEPT ![u] = filterRef(u)]
    /\ IF heap'[filterRef(u)].tradeType \in {"rent", "all"}
       THEN /\ keyboards' = [keyboards EXCEPT ![m] = <<"rent">>]
            /\ UNCHANGED tasks
       ELSE /\ tasks' = Append(tasks, Task(u, <<"dep", value>>, m, filterRef(u)))
            /\ UNCHANGED keyboards
    /\ UNCHANGED <<ALLOWED_USERS, members>>
    /\ UNCHANGED scraperVars

\* bot.action(/^rent_(.+)$/): lines 182-192.
ActRent(u, m, value) ==
    /\ received < MaxUpdates
    /\ <<"rent", value>> \in Buttons(keyboards[m])
    /\ received' = received + 1
    /\ heap' = IF value # "none"
               THEN [heapWithFilter(u) EXCEPT
                       ![filterRef(u)].maxRent = Some(parseInt(value))]
               ELSE heapWithFilter(u)
    /\ userFilters' = [userFilters EXCEPT ![u] = filterRef(u)]
    /\ tasks' = Append(tasks, Task(u, <<"rent", value>>, m, filterRef(u)))
    /\ UNCHANGED <<ALLOWED_USERS, members, keyboards>>
    /\ UNCHANGED scraperVars

\* bot.command('search'): lines 195-198.
CmdSearch(u) ==
    /\ received < MaxUpdates
    /\ received' = received + 1
    /\ IF ~isAllowed(u)
       THEN UNCHANGED <<heap, tasks>>
       ELSE /\ heap' = Append(heap, NewFilter)
            /\ tasks' = Append(tasks, Task(u, <<"search">>, 0, Len(heap) + 1))
    /\ UNCHANGED <<ALLOWED_USERS, members, userFilters, keyboards>>
    /\ UNCHANGED scraperVars

\* doSearch, line 204: await ctx.editMessageText(...) settles.  When it
\* resolves the message of the update shows the text and no keyboard; when
\* it rejects doSearch rejects, the statement standing before the try.
DoSearchEdit(i) ==
    /\ tasks[i].at = "edit"
    /\ \/ /\ tasks' = [tasks EXCEPT ![i].at = "init"]
          /\ keyboards' = IF tasks[i].msg = 0 THEN keyboards
                          ELSE [keyboards EXCEPT ![tasks[i].msg] = <<"none">>]
       \/ /\ tasks' = [tasks EXCEPT ![i].at = "failed"]
          /\ UNCHANGED keyboards
    /\ UNCHANGED <<ALLOWED_USERS, members, userFilters, heap, received>>
    /\ UNCHANGED scraperVars

\* doSearch, lines 206-219: await scraper.init() settles; when it resolves
\* the options are built from the filter object as it is now and
\* scraper.search(options) is called, when it rejects the catch replies.
DoSearchInit(i) ==
    /\ tasks[i].at = "init"
    /\ \/ tasks' = [tasks EXCEPT
                      ![i].at = "started",
                      ![i].options = Some(dialogueOptions(heap[tasks[i].filter]))]
       \/ tasks' = [tasks EXCEPT ![i].at = "failed"]
    /\ UNCHANGED <<ALLOWED_USERS, members, userFilters, heap, keyboards,
                   received>>
    /\ UNCHANGED scraperVars

Messages == 1..Len(keyboards)

DialogueNext ==
    \/ \E u \in members : CmdHangang(u)
    \/ \E u \in members : CmdSearch(u)
    \/ \E u \in members, m \in Messages, t \in TradeTypes : ActTrade(u, m, t)
    \/ \E u \in members, m \in Messages, v \in {"10000", "500", "1000", "none"} :
          ActDep(u, m, v)
    \/ \E u \in members, m \in Messages, v \in {"30", "none"} : ActRent(u, m, v)
    \/ \E i \in 1..Len(tasks) : DoSearchEdit(i)
    \/ \E i \in 1..Len(tasks) : DoSearchInit(i)

\* The bot starts with no filter stored and no message sent; the scraper is
\* not modelled beyond the call of search.
DialogueInit ==
    /\ InitScraper
    /\ role = [p \in Procs |-> "off"]
    /\ pc = [p \in Procs |-> "off"]
    /\ script = [p \in Procs |-> <<>>]
    /\ options = [p \in Procs |-> NoOptions]
    /\ upstream = [a \in ModelAreas |-> NoResponse]
    /\ userFilters = [u \in Users |-> 0]
    /\ heap = <<>>
    /\ keyboards = <<>>
    /\ tasks = <<>>
    /\ received = 0

\* A group chat: every user sees the bot's messages and their keyboards.
GroupChatInit ==
    /\ DialogueInit
    /\ members = Users
    /\ \E env \in AllowedEnvs : ALLOWED_USERS = splitTrim(env)

GroupChatSpec == GroupChatInit /\ [][DialogueNext]_vars

\* A private chat of user 1 with the bot, the user being allowed.
PrivateChatInit ==
    /\ DialogueInit
    /\ members = {1}
    /\ \E env \in AllowedEnvs :
        /\ ALLOWED_USERS = splitTrim(env)
        /\ isAllowed(1)

PrivateChatSpec == PrivateChatInit /\ [][DialogueNext]_vars

(***************************************************************************)
(* search as a function of the options and the upstream, for comparing     *)
(* one call with another.                                                  *)
(***************************************************************************)
\* A lookup that ends in failure: the area is not in AREA_CODES, the primary
\* request rejects, or the primary gives no record and the fallback rejects.
lookupFails(area) ==
    \/ area \notin AREA_CODES
    \/ upstream[area].primary = "throw"
    \/ Unusable(upstream[area]) /\ upstream[area].fbThrows

\* What searchAreaMobile(area) returns when it does not fail: the primary
\* records, or with none of them the fallback's.
areaYield(area) ==
    LET resp == upstream[area]
        recs == primaryRecords(resp, 0)
    IN  IF recs # <<>> THEN recs ELSE fallbackRecords(resp.fbItems, 0)

\* The loop of search over `areas`, none of which fails.
RECURSIVE searchLoop(_, _, _, _)
searchLoop(areas, opts, i, acc) ==
    IF i > Len(areas) THEN acc
    ELSE LET acc2 == acc \o areaYield(areas[i])
         IN  IF LimitReached(acc2, opts) THEN acc2
             ELSE searchLoop(areas, opts, i + 1, acc2)

searchOf(areas, opts) == Finalize(searchLoop(areas, opts, 1, <<>>), opts)

\* Records up to the values of their Math.random() ids.
Shape(rs) ==
    [i \in 1..Len(rs) |->
        IF rs[i].id[1] = "random" THEN [rs[i] EXCEPT !.id = <<"random", 0>>]
        ELSE rs[i]]

(***************************************************************************)
(* Claims.                                                                 *)
(***************************************************************************)
Returned(p) == outcome[p] = "returned"

\* C1: no two records of a returned sequence have the same id.
C1_NoDuplicateIds ==
    \A p \in Procs :
        Returned(p) =>
            \A i, j \in 1..Len(returned[p]) :
                i # j => returned[p][i].id # returned[p][j].id

\* C2: the returned sequence is never longer than options.limit, whatever
\* value the caller supplies (0 included), and never longer than 20 without
\* a limit.
C2_LengthWithinLimit ==
    \A p \in Procs :
        Returned(p) =>
            Len(returned[p]) <= (IF options[p].limit = None THEN DefaultLimit
                                 ELSE options[p].limit[1])

\* The filter-passing records the regions of p's search hold, in discovery
\* order.
Eligible(p) ==
    LET as == Areas(p)
        good == SelectSeq(as, LAMBDA a : ~lookupFails(a))
    IN  SelectSeq(Flatten([i \in 1..Len(good) |-> areaYield(good[i])]),
                  LAMBDA r : floorFilter(r, options[p]))

\* C3: when the regions together hold at least `limit` filter-passing
\* records, search returns exactly the first `limit` of them, in discovery
\* order.  Stated for a limit of 1 or more (limit 0 is C2's case).
C3_FirstLimitEligible ==
    \A p \in Procs :
        (Returned(p) /\ Truthy(options[p].limit)
            /\ Len(Eligible(p)) >= options[p].limit[1]) =>
            Shape(returned[p]) =
                Shape(SubSeq(Eligible(p), 1, options[p].limit[1]))

Range(s) == {s[i] : i \in 1..Len(s)}

\* C4: a fetched listing with a numeric floor n is left out of the result
\* exactly when n < minFloor, minFloor being the supplied value, or 2 when
\* none is supplied.  Stated for searches without a limit, where nothing is
\* cut off the end.
C4_FloorThreshold ==
    \A p \in Procs :
        (Returned(p) /\ options[p].limit = None) =>
            \A i \in 1..Len(results[p]) :
                LET r == results[p][i]
                    minFloor == IF options[p].minFloor = None THEN DefaultMinFloor
                                ELSE options[p].minFloor[1]
                IN  HasDigit(r.floor) =>
                        (r \notin Range(returned[p])
                            <=> FloorNumber(r.floor) < minFloor)

\* C5: no returned record has a floor text with a basement or semi-basement
\* marker, with or without digits in it.
C5_NoBasement ==
    \A p \in Procs :
        Returned(p) =>
            \A i \in 1..Len(returned[p]) :
                /\ ~Includes(returned[p][i].floor, JIHA)
                /\ ~Includes(returned[p][i].floor, BANJI)

\* C6: a region whose lookup fails contributes nothing and aborts nothing:
\* the search returns what the search over the other regions returns.
C6_FailedRegionIsolated ==
    \A p \in Procs :
        /\ outcome[p] = "threw" => (options[p].areas = None \/ launched = 0)
        /\ Returned(p) =>
             Shape(returned[p]) =
                Shape(searchOf(SelectSeq(Areas(p), LAMBDA a : ~lookupFails(a)),
                               options[p]))

\* A search over an unknown area and a known one returned records.
C6_Witness ==
    /\ Returned(1)
    /\ Areas(1) = <<"Unknown", "Yongsan">>
    /\ returned[1] # <<>>

\* C7: a lookup whose primary request gave no usable record (empty array,
\* unparseable payload, failed request) has tried the fallback page by the
\* time it concludes, and a lookup whose primary gave a record never tries
\* it.
C7_FallbackAfterUnusablePrimary ==
    \A p \in Procs :
        pc[p] = "ctxClose" =>
            /\ primaryOut[p] \in {"failed", "null", "unparseable", "nobody",
                                  "empty", "badrecord"} => fallbackTried[p]
            /\ primaryOut[p] = "records" => ~fallbackTried[p]

\* C8: when every handler has finished, each browser launched for a search
\* was closed exactly once and none is open.
C8_EachSessionReleasedOnce ==
    (\A h \in Procs : pc[h] = "h_done") =>
        /\ open = {}
        /\ \A b \in 1..launched : closeCount[b] = 1

\* C9: at most one browser launched by the instance is open, and a search
\* started with a live session launches none.
C9_AtMostOneSession ==
    /\ [](Cardinality(open) <= 1)
    /\ [][\A p \in Procs :
            (pc[p] # "search_init" /\ pc'[p] = "search_init") => browser = 0]_vars

\* C10: no two searches are in flight on the scraper at once, and no search
\* in flight finds its session torn down by another handler's close.
C10_SearchesExclusive ==
    /\ ~(pc[1] \in SearchPcs /\ pc[2] \in SearchPcs)
    /\ \A h \in Procs :
        pc[h] \in {"newPage", "primary", "fallback"} => ctx[h] \in open

\* C11: a search whose browser launched never ends in an exception towards
\* the caller, whatever else fails (unknown area, missing or empty areas,
\* failed context, page or request, malformed record).
C11_NoMidSearchException ==
    \A p \in Procs : outcome[p] = "threw" => launched = 0

\* C12: a search whose launch failed has thrown: it called chromium.launch
\* once, looked up no region and returned no record.
C12_AcquisitionFailureFatal ==
    \A p \in Procs :
        (launched = 0 /\ outcome[p] # "none" /\ pc[p] # "search_init") =>
            /\ outcome[p] = "threw"
            /\ launchCalls = 1
            /\ idx[p] = 0 /\ results[p] = <<>> /\ returned[p] = <<>>
            /\ ctx[p] = 0 /\ primaryOut[p] = "none" /\ ~fallbackTried[p]

\* A search over two known areas ended in the launch failure.
C12_Witness ==
    /\ outcome[1] = "threw"
    /\ launched = 0 /\ launchCalls = 1
    /\ options[1].areas = Some(<<"Yongsan", "Mapo">>)

\* C13: close() calls, back to back or overlapping, call browser.close() at
\* most once on each launched browser, and when every call has settled after
\* a last close the scraper holds no browser.
C13_CloseIdempotent ==
    /\ \A b \in 1..launched : closeCount[b] <= 1
    /\ (\A p \in Procs : pc[p] = "client" /\ script[p] = <<>>) => browser = 0

\* C14: once a request was issued for one area, the lookup of the next area
\* begins only from a throttle delay step, also after a failed request.
C14_ThrottleBetweenLookups ==
    [][\A p \in Procs :
          (/\ pc'[p] = "newContext" /\ idx'[p] >= 2
           /\ primaryOut[p] \notin {"none", "unknown"}) =>
              pc[p] = "throttle"]_vars

\* C18: the listing fetches of a cluster search go by descending count (no
\* cluster is fetched before one of a strictly higher count, fetched or
\* not), no cluster is fetched twice, and at most 5 fetches are issued.
C18_DensestFirstAtMostFive ==
    /\ Len(fetched) <= ClusterCap
    /\ \A i, j \in 1..Len(fetched) :
          i < j => /\ fetched[i].count >= fetched[j].count
                   /\ fetched[i].lgeo # fetched[j].lgeo
    /\ \A i \in 1..Len(fetched) :
          /\ fetched[i] \in Range(upstream.list)
          /\ \A c \in Range(upstream.list) :
                c \notin Range(fetched) => fetched[i].count >= c.count

\* Five fetches were issued out of six clusters that the upstream listed with
\* the sparsest first.
C18_Witness ==
    /\ pc[1] = "c_done"
    /\ Len(fetched) = ClusterCap
    /\ Len(upstream.list) > ClusterCap
    /\ upstream.list[1].count < upstream.list[Len(upstream.list)].count

\* C19: when the aggregate cluster query fails, or its payload is
\* unparseable or lacks the success code or the cluster array, discovery
\* yields no cluster, no listing fetch is issued and search returns the
\* empty sequence.
C19_AggregateFailureEmpty ==
    (upstream.kind # "ok" /\ pc[1] \notin {"c_start", "c_clusters"}) =>
        /\ pc[1] = "c_done"
        /\ clusters = <<>> /\ fetched = <<>>
        /\ outcome[1] = "returned" /\ returned[1] = <<>>

\* A cluster search ended after an unparseable aggregate payload.
C19_Witness ==
    /\ pc[1] = "c_done"
    /\ upstream.kind = "unparseable"
    /\ outcome[1] = "returned"

\* The number a size text stands for, if it stands for one.
StatedSize(spc2) ==
    IF spc2 # None /\ spc2[1] = "num" THEN Some(spc2[2]) ELSE None

OutsideBounds(n, opts) ==
    \/ opts.minSize # None /\ n < opts.minSize[1]
    \/ opts.maxSize # None /\ n > opts.maxSize[1]

\* C15: a record whose size is a number outside [minSize, maxSize] is
\* dropped; one whose size is a number inside the bounds, or is missing or
\* no number, is kept by the size filter.
C15_SizeFilter ==
    pc[1] = "n_done" =>
        LET n == StatedSize(raw.spc2)
        IN  IF n # None /\ OutsideBounds(n[1], options[1])
            THEN ~normalized.kept
            ELSE normalized.kept

\* C16: the price of a structured record is deposit "/" rent with both
\* components, the one component alone with one of them, and with neither
\* the combined price text if there is one, else the empty text.
C16_PriceFormat ==
    (pc[1] = "n_done" /\ normalized.kept) =>
        LET dep == TruthyText(raw.hanPrc)
            rent == Truthy(raw.rentPrc)
            price == normalized.property.price
        IN  IF dep /\ rent
            THEN price = raw.hanPrc[1] \o <<"/">> \o NumText(raw.rentPrc[1])
            ELSE IF dep THEN price = raw.hanPrc[1]
            ELSE IF rent THEN price = NumText(raw.rentPrc[1])
            ELSE IF TruthyText(raw.prcInfo)
                 THEN price \in {raw.prcInfo[1],
                                 trim(collapseSpaces(raw.prcInfo[1]))}
            ELSE price = <<>>

\* C17: two calls of search with the same options against an upstream that
\* answers the same return the same set of records, ids included.
C17_RepeatedSearchSameSet ==
    (Returned(1) /\ Returned(2)) =>
        Range(returned[1]) = Range(returned[2])

\* The limit a search works under: the supplied one, or 20 when none is.
effectiveLimit(opts) ==
    IF opts.limit = None THEN DefaultLimit ELSE opts.limit[1]

\* C20: regions are looked up one at a time in the order supplied; no lookup
\* is issued once the accumulated record count has reached the effective
\* limit (the supplied limit, or 20 when none is supplied), and a search
\* that never reached it has gone through every supplied region in turn.
C20_LimitStopsLookups ==
    \A p \in Procs :
        /\ pc[p] = "newContext" =>
               /\ idx[p] \in 1..Len(Areas(p))
               /\ Len(results[p]) < effectiveLimit(options[p])
        /\ (Returned(p) /\ Len(results[p]) < effectiveLimit(options[p])) =>
               idx[p] = Len(Areas(p)) + 1

\* The pcs at which a region lookup is under way.
LookupPcs == {"newPage", "primary", "fallback", "ctxClose"}

\* The context opened for p's lookup is still open: context.close() was not
\* called on it and its browser is alive.
SubSessionOpen(p) == ctx[p] # 0 /\ ctx[p] \in open

\* C21: every sub-session opened for a region lookup is closed by the time
\* that lookup finishes, on every exit path (normal return, unknown area,
\* exception during page creation, navigation or extraction): outside a
\* lookup, and so at the start of the next one, none is open.
C21_SubSessionsClosed ==
    \A p \in Procs : pc[p] \notin LookupPcs => ~SubSessionOpen(p)

\* The doSearch calls that reached scraper.search.
StartedTasks == {i \in 1..Len(tasks) : tasks[i].at = "started"}

\* C22: when ALLOWED_USERS is non-empty, whatever commands and button
\* callbacks the bot receives, no search is started by an update whose
\* sender id is not in ALLOWED_USERS.
C22_OnlyAllowedUsersSearch ==
    ALLOWED_USERS[1] # <<>> =>
        \A i \in StartedTasks : allowedIncludes(idText(tasks[i].from))

\* C23: for any sequence of /hangang commands and button presses by one
\* user, a search started by dep_none carries no maxDeposit, a search
\* started by rent_none carries no maxRent, and a jeonse search carries no
\* maxRent: no value of an earlier choice is carried into the search.
C23_NoLimitCarriesNoBound ==
    \A i \in StartedTasks :
        LET o == tasks[i].options[1]
        IN  /\ tasks[i].via = <<"dep", "none">> => o.maxDeposit = None
            /\ tasks[i].via = <<"rent", "none">> => o.maxRent = None
            /\ o.tradeType = "jeonse" => o.maxRent = None

====
